---------------------------- MODULE Spec2Model ----------------------------
(*************************************************************************)
(* Date binders of solara.lab: DatePicker, DateRangePicker (datepicker.py)*)
(* and InputDate, InputDateRange (input_date.py).                         *)
(*                                                                        *)
(* A binder couples a caller-owned reactive date (or list of dates) to a  *)
(* text field and to a calendar widget living in a Menu overlay.  The     *)
(* model keeps the caller's references, the per-instance hook state and   *)
(* what the last render put on screen, and has one action per event       *)
(* handler.  Strings are sequences of one-character strings, so that      *)
(* strftime and strptime are computed and not assumed.                    *)
(*************************************************************************)
EXTENDS Integers, Sequences, FiniteSets, TLC

(*************************************************************************)
(* Values                                                                 *)
(*************************************************************************)

\* Python None held by a date reference.
None == [year |-> 0, month |-> 0, day |-> 0]

\* Python None where a str is expected (TextField value=None).
NoneStr == <<"None">>

Date(y, m, d) == [year |-> y, month |-> m, day |-> d]

\* Longest sequence the calendar widget is let to report in range mode.
MaxRangeLen == 3

\* The dates the caller and the user choose from.
SingleDates == {Date(2024, 1, 15), Date(2024, 2, 20)}
RangeDates == {Date(2024, 3, 1), Date(2024, 3, 10)}

\* strftime/strptime patterns, as character sequences.
ISO_FORMAT == <<"%", "Y", "-", "%", "m", "-", "%", "d">>
SLASH_FORMAT == <<"%", "Y", "/", "%", "m", "/", "%", "d">>
DOT_FORMAT == <<"%", "d", ".", "%", "m", ".", "%", "Y">>
Formats == {ISO_FORMAT, SLASH_FORMAT, DOT_FORMAT}

(*************************************************************************)
(* datetime.date.strftime and datetime.datetime.strptime(...).date(),     *)
(* for the directives %Y, %m, %d and literal characters.                  *)
(*************************************************************************)

Digits == <<"0", "1", "2", "3", "4", "5", "6", "7", "8", "9">>

IsDigit(c) == \E n \in 1..10 : Digits[n] = c

DigitVal(c) == (CHOOSE n \in 1..10 : Digits[n] = c) - 1

\* n written with exactly w decimal digits (n < 10^w).
RECURSIVE ZeroPad(_, _)
ZeroPad(n, w) ==
    IF w = 0 THEN <<>> ELSE ZeroPad(n \div 10, w - 1) \o <<Digits[(n % 10) + 1]>>

RECURSIVE strftime(_, _)
strftime(date, fmt) ==
    IF fmt = <<>> THEN <<>>
    ELSE IF fmt[1] = "%" /\ Len(fmt) >= 2
    THEN (CASE fmt[2] = "Y" -> ZeroPad(date.year, 4)
            [] fmt[2] = "m" -> ZeroPad(date.month, 2)
            [] fmt[2] = "d" -> ZeroPad(date.day, 2)
            [] OTHER -> <<fmt[2]>>)
         \o strftime(date, SubSeq(fmt, 3, Len(fmt)))
    ELSE <<fmt[1]>> \o strftime(date, Tail(fmt))

\* The alternatives of a directive's regular expression that match a prefix
\* of s, in the order the regex engine tries them: <<value, length>> pairs.
\*   %Y  \d\d\d\d
\*   %m  1[0-2]|0[1-9]|[1-9]
\*   %d  3[01]|[12]\d|0[1-9]|[1-9]| [1-9]
DirectiveAlts(dir, s) ==
    LET n == Len(s)
        D(k) == DigitVal(s[k])
        two(lo1, hi1, lo2, hi2) ==
            IF n >= 2 /\ IsDigit(s[1]) /\ IsDigit(s[2])
               /\ D(1) >= lo1 /\ D(1) <= hi1 /\ D(2) >= lo2 /\ D(2) <= hi2
            THEN << <<10 * D(1) + D(2), 2>> >> ELSE <<>>
        one == IF n >= 1 /\ IsDigit(s[1]) /\ D(1) >= 1
               THEN << <<D(1), 1>> >> ELSE <<>>
        spaced == IF n >= 2 /\ s[1] = " " /\ IsDigit(s[2]) /\ D(2) >= 1
                  THEN << <<D(2), 2>> >> ELSE <<>>
    IN CASE dir = "Y" ->
              IF n >= 4 /\ \A k \in 1..4 : IsDigit(s[k])
              THEN << <<1000 * D(1) + 100 * D(2) + 10 * D(3) + D(4), 4>> >>
              ELSE <<>>
         [] dir = "m" -> two(1, 1, 0, 2) \o two(0, 0, 1, 9) \o one
         [] dir = "d" -> two(3, 3, 0, 1) \o two(1, 2, 0, 9) \o two(0, 0, 1, 9)
                         \o one \o spaced
         [] OTHER -> <<>>

\* All matches of the pattern's regex at the start of s, in backtracking
\* order; each is the fields found plus the number of characters consumed.
\* Fields not in the pattern keep strptime's defaults 1900-01-01.
RECURSIVE regex_match(_, _, _)
regex_match(fmt, s, found) ==
    IF fmt = <<>> THEN << found >>
    ELSE IF fmt[1] = "%" /\ Len(fmt) >= 2
    THEN LET alts == DirectiveAlts(fmt[2], s)
             rest == SubSeq(fmt, 3, Len(fmt))
             put(a) == CASE fmt[2] = "Y" -> [found EXCEPT !.year = a[1], !.end = @ + a[2]]
                         [] fmt[2] = "m" -> [found EXCEPT !.month = a[1], !.end = @ + a[2]]
                         [] OTHER -> [found EXCEPT !.day = a[1], !.end = @ + a[2]]
             try[k \in 1..(Len(alts) + 1)] ==
                 IF k > Len(alts) THEN <<>>
                 ELSE regex_match(rest, SubSeq(s, alts[k][2] + 1, Len(s)), put(alts[k]))
                      \o try[k + 1]
         IN try[1]
    ELSE IF s # <<>> /\ s[1] = fmt[1]
    THEN regex_match(Tail(fmt), Tail(s), [found EXCEPT !.end = @ + 1])
    ELSE <<>>

IsLeap(y) == (y % 4 = 0 /\ y % 100 # 0) \/ y % 400 = 0

DaysInMonth(y, m) ==
    IF m = 2 THEN (IF IsLeap(y) THEN 29 ELSE 28)
    ELSE IF m \in {4, 6, 9, 11} THEN 30 ELSE 31

\* datetime.datetime.strptime(s, fmt).date(): [ok |-> TRUE, date |-> d], or
\* ok = FALSE where Python raises ValueError (no match, unconverted data
\* remains, day out of range for month).
strptime(s, fmt) ==
    LET ms == regex_match(fmt, s, [year |-> 1900, month |-> 1, day |-> 1, end |-> 0])
        bad == [ok |-> FALSE, date |-> None]
    IN IF ms = <<>> THEN bad
       ELSE LET m == ms[1]
            IN IF m.end # Len(s) THEN bad
               ELSE IF m.day > DaysInMonth(m.year, m.month) THEN bad
               ELSE [ok |-> TRUE, date |-> Date(m.year, m.month, m.day)]


(*************************************************************************)
(* The page: caller-owned references, binder instances, the screen        *)
(*************************************************************************)

\* Slots of the page in which the caller may place a binder.
Inst == {"a", "b"}

SingleKinds == {"DatePicker", "InputDate"}
RangeKinds == {"DateRangePicker", "InputDateRange"}
InputKinds == {"InputDate", "InputDateRange"}

VARIABLES
    props,        \* per slot, the arguments the caller passes to the component
    value,        \* the caller's reactive date (`date` / `value`), or None
    dates,        \* the caller's reactive list of dates (`dates` / `value`)
    open_ref,     \* the caller's reactive bool, passed as `open` when a reference
    mounted,      \* per slot, whether the component is mounted
    own_open,     \* per slot, the cell use_reactive made for a plain `open`
    date_str,     \* per slot, InputDate's cell date_str = use_reactive(...)
    text,         \* per slot, the TextField value put on screen by the last render
    menu_open,    \* per slot, the Menu's open state as of the last render
    event,        \* the last event handled: name, slot and argument
    raised        \* the exception the last handler let escape, or "none"

vars == <<props, value, dates, open_ref, mounted, own_open, date_str, text,
          menu_open, event, raised>>

\* A slot the caller leaves empty.
Absent == [kind |-> "absent", date_format |-> ISO_FORMAT, open |-> FALSE,
           open_is_ref |-> FALSE, children |-> 0]

\* The argument lists a caller may pass: any component, any known pattern,
\* `open` a plain bool or the reference open_ref, no children or two.
Props == [kind : SingleKinds \cup RangeKinds, date_format : Formats,
          open : BOOLEAN, open_is_ref : BOOLEAN, children : {0, 2}]

Present(i) == props[i].kind # "absent"

Mounted == {i \in Inst : mounted[i]}

(*************************************************************************)
(* solara.use_reactive and the open flag                                  *)
(*************************************************************************)

\* Variant: the cell is seeded again from the argument on every render.
use_reactive_reseed(first_render, arg, cell) == arg

\* use_reactive(arg) for a plain arg: the content of the component's cell
\* once the hook has run.  The cell is created from arg on the first render
\* and kept on later renders, whatever arg is then.
use_reactive(first_render, arg, cell) == IF first_render THEN arg ELSE cell

\* Variant: the component always keeps a cell of its own, also when the
\* caller passed a reference.
datepicker_is_open_detached(p, ref, cell) == cell

\* datepicker_is_open = solara.use_reactive(open): the reference itself when
\* the caller passes one, else the component's own cell.
datepicker_is_open(p, ref, cell) == IF p.open_is_ref THEN ref ELSE cell

\* datepicker_is_open.set(b)
datepicker_is_open_set(i, b) ==
    IF props[i].open_is_ref
    THEN open_ref' = b /\ own_open' = own_open
    ELSE own_open' = [own_open EXCEPT ![i] = b] /\ open_ref' = open_ref

(*************************************************************************)
(* Derived display                                                        *)
(*************************************************************************)

\* DatePicker: date_str = date.value.strftime(date_format) or None
DatePicker_date_str(v, fmt) == IF v # None THEN strftime(v, fmt) ELSE NoneStr

\* InputDate: str_and_format()
str_and_format(v, fmt) == IF v # None THEN strftime(v, fmt) ELSE NoneStr

\* [date.strftime(date_format) for date in dates.value]
date_strings(ds, fmt) == [k \in 1..Len(ds) |-> strftime(ds[k], fmt)]

\* sep.join(strs)
RECURSIVE join(_, _)
join(sep, strs) ==
    IF strs = <<>> THEN <<>>
    ELSE IF Len(strs) = 1 THEN strs[1]
    ELSE strs[1] \o sep \o join(sep, Tail(strs))

RANGE_SEP == <<" ", "-", " ">>

\* The `value` each component hands to its TextField when it renders.
TextFieldValue(p, v, ds, cell) ==
    CASE p.kind = "DatePicker" -> DatePicker_date_str(v, p.date_format)
      [] p.kind = "InputDate" -> cell
      [] p.kind \in RangeKinds -> join(RANGE_SEP, date_strings(ds, p.date_format))
      [] OTHER -> NoneStr

\* Every mounted component reads the references it renders from, so a write
\* to any of them re-renders it before the event is over.
Render ==
    /\ text' = [i \in Inst |->
                  IF mounted'[i]
                  THEN TextFieldValue(props'[i], value', dates', date_str'[i])
                  ELSE NoneStr]
    /\ menu_open' = [i \in Inst |->
                       mounted'[i]
                       /\ datepicker_is_open(props'[i], open_ref', own_open'[i])]


(*************************************************************************)
(* Edit handlers                                                          *)
(*************************************************************************)

\* Variant: DatePicker parses with the canonical pattern, as InputDate does.
DatePicker_set_date_cast_iso(i, new_value) ==
    LET parsed == strptime(new_value, ISO_FORMAT)
    IN IF parsed.ok
       THEN value' = parsed.date /\ raised' = "none"
       ELSE value' = value /\ raised' = "ValueError"

\* datepicker.py DatePicker.set_date_cast: parse with the caller's pattern.
DatePicker_set_date_cast(i, new_value) ==
    LET parsed == strptime(new_value, props[i].date_format)
    IN IF parsed.ok
       THEN value' = parsed.date /\ raised' = "none"
       ELSE value' = value /\ raised' = "ValueError"

\* Variant: a string that does not parse clears the reference.
InputDate_set_date_cast_clears(i, new_value) ==
    LET parsed == strptime(new_value, ISO_FORMAT)
    IN IF parsed.ok
       THEN /\ value' = parsed.date
            /\ date_str' = [date_str EXCEPT
                              ![i] = str_and_format(parsed.date, props[i].date_format)]
            /\ raised' = "none"
       ELSE /\ value' = None
            /\ date_str' = date_str
            /\ raised' = "ValueError"

\* Variant: the text field keeps the raw text the user typed.
InputDate_set_date_cast_raw(i, new_value) ==
    LET parsed == strptime(new_value, ISO_FORMAT)
    IN IF parsed.ok
       THEN /\ value' = parsed.date
            /\ date_str' = [date_str EXCEPT ![i] = new_value]
            /\ raised' = "none"
       ELSE /\ value' = value
            /\ date_str' = date_str
            /\ raised' = "ValueError"

\* input_date.py InputDate.set_date_cast: parse with "%Y-%m-%d", write the
\* reference, then refresh the date_str cell.
InputDate_set_date_cast(i, new_value) ==
    LET parsed == strptime(new_value, ISO_FORMAT)
    IN IF parsed.ok
       THEN /\ value' = parsed.date
            /\ date_str' = [date_str EXCEPT
                              ![i] = str_and_format(parsed.date, props[i].date_format)]
            /\ raised' = "none"
       ELSE /\ value' = value
            /\ date_str' = date_str
            /\ raised' = "ValueError"

\* The list comprehension of set_dates_cast: every item parsed with fmt.
ParseAll(values, fmt) == [k \in 1..Len(values) |-> strptime(values[k], fmt)]

AllOk(parsed) == \A k \in 1..Len(parsed) : parsed[k].ok

DatesOf(parsed) == [k \in 1..Len(parsed) |-> parsed[k].date]

DateLE(d1, d2) ==
    \/ d1.year < d2.year
    \/ d1.year = d2.year /\ d1.month < d2.month
    \/ d1.year = d2.year /\ d1.month = d2.month /\ d1.day <= d2.day

\* Variant: the two ends of a range are put in ascending order.
DateRangePicker_set_dates_cast_sorted(i, values) ==
    LET parsed == ParseAll(values, props[i].date_format)
        ds == DatesOf(parsed)
    IN IF AllOk(parsed)
       THEN /\ dates' = IF Len(ds) = 2 /\ ~DateLE(ds[1], ds[2])
                        THEN <<ds[2], ds[1]>> ELSE ds
            /\ raised' = "none"
       ELSE dates' = dates /\ raised' = "ValueError"

\* datepicker.py DateRangePicker.set_dates_cast: parse with the caller's pattern.
DateRangePicker_set_dates_cast(i, values) ==
    LET parsed == ParseAll(values, props[i].date_format)
    IN IF AllOk(parsed)
       THEN dates' = DatesOf(parsed) /\ raised' = "none"
       ELSE dates' = dates /\ raised' = "ValueError"

\* The items parsed before the first one that fails.
RECURSIVE ParsedPrefix(_)
ParsedPrefix(parsed) ==
    IF parsed = <<>> \/ ~parsed[1].ok THEN <<>>
    ELSE <<parsed[1].date>> \o ParsedPrefix(Tail(parsed))

\* Variant: the items are written one by one as they parse, so a failure
\* leaves the ones before it in the reference.
InputDateRange_set_dates_cast_partial(i, values) ==
    LET parsed == ParseAll(values, ISO_FORMAT)
    IN IF AllOk(parsed)
       THEN dates' = DatesOf(parsed) /\ raised' = "none"
       ELSE dates' = ParsedPrefix(parsed) /\ raised' = "ValueError"

\* input_date.py InputDateRange.set_dates_cast: parse with "%Y-%m-%d".
InputDateRange_set_dates_cast(i, values) ==
    LET parsed == ParseAll(values, ISO_FORMAT)
    IN IF AllOk(parsed)
       THEN dates' = DatesOf(parsed) /\ raised' = "none"
       ELSE dates' = dates /\ raised' = "ValueError"

\* Variant: Menu(close_on_content_click=True).
close_on_content_click_on == TRUE

\* The elements the caller passes as `children`, in the caller's order.
ChildElements == <<"child1", "child2">>

Children(p) == SubSeq(ChildElements, 1, p.children)

\* Variant: the close button is rendered after the caller's children too.
ControlsUnderCalendar_always_close(p) == Children(p) \o <<"close">>

\* What is rendered inside the calendar widget: the children in order if
\* there are any, else the default close button.
ControlsUnderCalendar(p) ==
    IF Len(Children(p)) > 0 THEN Children(p) ELSE <<"close">>

\* Menu(close_on_content_click=False): a click inside the overlay, such as
\* a pick in the calendar, does not dismiss it.
close_on_content_click == FALSE

\* The Menu's reaction to a click on its content.
Menu_content_click(i) ==
    IF close_on_content_click
    THEN datepicker_is_open_set(i, FALSE)
    ELSE UNCHANGED <<open_ref, own_open>>

\* Variant: the button's handler sets the flag instead of clearing it.
close_on_click_reopens(i) == datepicker_is_open_set(i, TRUE)

\* on_click of the default "close" Button.
close_on_click(i) == datepicker_is_open_set(i, FALSE)

\* The Menu opens when its activator, the TextField, is clicked.
Menu_activate(i) == datepicker_is_open_set(i, TRUE)

(*************************************************************************)
(* What the user and the caller can send                                  *)
(*************************************************************************)

Str_not_a_date == <<"n", "o", "t", "-", "a", "-", "d", "a", "t", "e">>
Str_feb_30 == <<"2", "0", "2", "4", "-", "0", "2", "-", "3", "0">>
Str_unpadded == <<"2", "0", "2", "4", "-", "2", "-", "2", "0">>

\* A date of the set written in any of the known patterns.
WireStrings(ds) == {strftime(d, f) : d \in ds, f \in Formats}

\* What the calendar widget may report in single mode.
PickedStrings == WireStrings(SingleDates)

\* What the user may type in an editable text field.
TypedStrings == PickedStrings \cup {Str_not_a_date, Str_feb_30, Str_unpadded}

SeqsUpTo(S, n) == UNION {[1..k -> S] : k \in 0..n}

\* Sequences of dates a range selection can hold: every sequence of up to
\* two dates, in either order, and beyond two (which a well-behaved widget
\* does not report) the alternating sequences up to MaxRangeLen.
Alternating(n, d1, d2) == [k \in 1..n |-> IF k % 2 = 1 THEN d1 ELSE d2]

RangeSeqs ==
    SeqsUpTo(RangeDates, 2)
    \cup {Alternating(n, d[1], d[2]) : n \in 3..MaxRangeLen,
                                      d \in {e \in RangeDates \X RangeDates :
                                                e[1] # e[2]}}

\* What the calendar widget may report in range mode: the dates in the order
\* picked, all written in one pattern.
PickedRanges == {date_strings(ds, f) : ds \in RangeSeqs, f \in Formats}

\* Reports of two items of which one, the first or the second, is no date.
BrokenRanges ==
    UNION {{<<g, Str_not_a_date>>, <<Str_not_a_date, g>>} : g \in WireStrings(RangeDates)}

Event(name, i, arg) == [name |-> name, inst |-> i, arg |-> arg]

(*************************************************************************)
(* Actions                                                                *)
(*************************************************************************)

\* The caller mounts the component of slot i: first render, hooks created.
Mount(i) ==
    /\ Present(i) /\ ~mounted[i]
    /\ mounted' = [mounted EXCEPT ![i] = TRUE]
    /\ own_open' = [own_open EXCEPT
                      ![i] = IF props[i].open_is_ref THEN FALSE
                             ELSE use_reactive(TRUE, props[i].open, @)]
    /\ date_str' = [date_str EXCEPT
                      ![i] = IF props[i].kind = "InputDate"
                             THEN use_reactive(TRUE,
                                      str_and_format(value, props[i].date_format), @)
                             ELSE @]
    /\ event' = Event("mount", i, <<>>)
    /\ raised' = "none"
    /\ UNCHANGED <<props, value, dates, open_ref>>
    /\ Render

\* The caller removes the component: its hook state is dropped.
Unmount(i) ==
    /\ mounted[i]
    /\ mounted' = [mounted EXCEPT ![i] = FALSE]
    /\ own_open' = [own_open EXCEPT ![i] = FALSE]
    /\ date_str' = [date_str EXCEPT ![i] = NoneStr]
    /\ event' = Event("unmount", i, <<>>)
    /\ raised' = "none"
    /\ UNCHANGED <<props, value, dates, open_ref>>
    /\ Render

\* The caller renders again, passing b as the plain `open` argument (the
\* same reference again when `open` is one): the hooks run a second time.
Rerender(i, b) ==
    /\ mounted[i]
    /\ props[i].open_is_ref => b = props[i].open
    /\ props' = [props EXCEPT ![i].open = b]
    /\ own_open' = [own_open EXCEPT
                      ![i] = IF props[i].open_is_ref THEN @
                             ELSE use_reactive(FALSE, b, @)]
    /\ date_str' = [date_str EXCEPT
                      ![i] = IF props[i].kind = "InputDate"
                             THEN use_reactive(FALSE,
                                      str_and_format(value, props[i].date_format), @)
                             ELSE @]
    /\ event' = Event("rerender", i, <<>>)
    /\ raised' = "none"
    /\ UNCHANGED <<value, dates, open_ref, mounted>>
    /\ Render

\* The caller, or any other holder of the reference, writes the date.
ExternalWriteValue(v) ==
    /\ \E i \in Inst : props[i].kind \in SingleKinds
    /\ value' = v
    /\ event' = Event("write_value", "a", <<>>)
    /\ raised' = "none"
    /\ UNCHANGED <<props, dates, open_ref, mounted, own_open, date_str>>
    /\ Render

\* The caller writes the list of dates.
ExternalWriteDates(ds) ==
    /\ \E i \in Inst : props[i].kind \in RangeKinds
    /\ dates' = ds
    /\ event' = Event("write_dates", "a", <<>>)
    /\ raised' = "none"
    /\ UNCHANGED <<props, value, open_ref, mounted, own_open, date_str>>
    /\ Render

\* The caller (or a child control it supplied) toggles its open reference.
ExternalToggleOpen ==
    /\ \E i \in Inst : Present(i) /\ props[i].open_is_ref
    /\ open_ref' = ~open_ref
    /\ event' = Event("toggle_open", "a", <<>>)
    /\ raised' = "none"
    /\ UNCHANGED <<props, value, dates, mounted, own_open, date_str>>
    /\ Render

\* The user clicks the text field, the Menu's activator.
Activate(i) ==
    /\ mounted[i]
    /\ Menu_activate(i)
    /\ event' = Event("activate", i, <<>>)
    /\ raised' = "none"
    /\ UNCHANGED <<props, value, dates, mounted, date_str>>
    /\ Render

\* Variant: closing discards the selection.
CloseClick_rollback(i) ==
    /\ mounted[i] /\ menu_open[i]
    /\ props[i].children = 0
    /\ close_on_click(i)
    /\ value' = None /\ dates' = <<>>
    /\ event' = Event("close", i, <<>>)
    /\ raised' = "none"
    /\ UNCHANGED <<props, mounted, date_str>>
    /\ Render

\* The user clicks the default close button, shown in the open overlay when
\* the caller gave no children.
CloseClick(i) ==
    /\ mounted[i] /\ menu_open[i]
    /\ \E k \in 1..Len(ControlsUnderCalendar(props[i])) :
          ControlsUnderCalendar(props[i])[k] = "close"
    /\ close_on_click(i)
    /\ event' = Event("close", i, <<>>)
    /\ raised' = "none"
    /\ UNCHANGED <<props, value, dates, mounted, date_str>>
    /\ Render

\* TextField(readonly=True) in DatePicker, DateRangePicker and
\* InputDateRange; InputDate's TextField does not set it.
readonly(p) == p.kind # "InputDate"

\* The user types s into the text field, if it takes input: on_v_model gets
\* the string (which a set_dates_cast would iterate character by character).
TextEdit(i, s) ==
    /\ mounted[i]
    /\ ~readonly(props[i])
    /\ CASE props[i].kind = "InputDate" ->
              InputDate_set_date_cast(i, s) /\ dates' = dates
         [] props[i].kind = "DatePicker" ->
              DatePicker_set_date_cast(i, s) /\ UNCHANGED <<dates, date_str>>
         [] props[i].kind = "InputDateRange" ->
              InputDateRange_set_dates_cast(i, [k \in 1..Len(s) |-> <<s[k]>>])
              /\ UNCHANGED <<value, date_str>>
         [] OTHER ->
              DateRangePicker_set_dates_cast(i, [k \in 1..Len(s) |-> <<s[k]>>])
              /\ UNCHANGED <<value, date_str>>
    /\ event' = Event("text_edit", i, <<s>>)
    /\ UNCHANGED <<props, open_ref, mounted, own_open>>
    /\ Render

\* The calendar widget of the open overlay reports s (single mode).
CalendarPick(i, s) ==
    /\ mounted[i] /\ menu_open[i]
    /\ props[i].kind \in SingleKinds
    /\ IF props[i].kind = "InputDate"
       THEN InputDate_set_date_cast(i, s)
       ELSE DatePicker_set_date_cast(i, s) /\ date_str' = date_str
    /\ Menu_content_click(i)
    /\ event' = Event("calendar_pick", i, <<s>>)
    /\ UNCHANGED <<props, dates, mounted>>
    /\ Render

\* The calendar widget of the open overlay reports ss (range mode).
CalendarRange(i, ss) ==
    /\ mounted[i] /\ menu_open[i]
    /\ props[i].kind \in RangeKinds
    /\ IF props[i].kind = "InputDateRange"
       THEN InputDateRange_set_dates_cast(i, ss)
       ELSE DateRangePicker_set_dates_cast(i, ss)
    /\ Menu_content_click(i)
    /\ event' = Event("calendar_range", i, ss)
    /\ UNCHANGED <<props, value, mounted, date_str>>
    /\ Render

Next ==
    \/ \E i \in Inst : Mount(i)
    \/ \E i \in Inst : Unmount(i)
    \/ \E i \in Inst, b \in BOOLEAN : Rerender(i, b)
    \/ \E v \in SingleDates \cup {None} : ExternalWriteValue(v)
    \/ \E ds \in SeqsUpTo(RangeDates, 2) : ExternalWriteDates(ds)
    \/ ExternalToggleOpen
    \/ \E i \in Inst : Activate(i)
    \/ \E i \in Inst : CloseClick(i)
    \/ \E i \in Inst, s \in TypedStrings : TextEdit(i, s)
    \/ \E i \in Inst, s \in PickedStrings : CalendarPick(i, s)
    \/ \E i \in Inst, ss \in PickedRanges \cup BrokenRanges : CalendarRange(i, ss)

\* One binder on the page, in slot "a"; nothing mounted yet.  The reference
\* the binder does not use stays at its empty value.
Init ==
    /\ props \in {f \in [Inst -> Props \cup {Absent}] :
                    /\ f["a"] \in Props /\ f["b"] = Absent
                    /\ f["a"].open_is_ref => ~f["a"].open}
    /\ value \in (IF props["a"].kind \in SingleKinds
                  THEN SingleDates \cup {None} ELSE {None})
    /\ dates \in (IF props["a"].kind \in RangeKinds
                  THEN {<<>>, <<Date(2024, 3, 1), Date(2024, 3, 10)>>} ELSE {<<>>})
    /\ open_ref = FALSE
    /\ mounted = [i \in Inst |-> FALSE]
    /\ own_open = [i \in Inst |-> FALSE]
    /\ date_str = [i \in Inst |-> NoneStr]
    /\ text = [i \in Inst |-> NoneStr]
    /\ menu_open = [i \in Inst |-> FALSE]
    /\ event = Event("init", "a", <<>>)
    /\ raised = "none"

Spec == Init /\ [][Next]_vars


(*************************************************************************)
(* Properties                                                             *)
(*************************************************************************)

EditNames == {"text_edit", "calendar_pick", "calendar_range"}

\* The pattern a binder parses a received edit with.
ReceptionPattern(p) == IF p.kind \in InputKinds THEN ISO_FORMAT ELSE p.date_format

\* The reference a binder is bound to, formatted as the Formatter contract
\* says: "" for no date, the elements joined by " - " for a sequence.
format(p, v, ds) ==
    IF p.kind \in SingleKinds
    THEN (IF v = None THEN <<>> ELSE strftime(v, p.date_format))
    ELSE join(RANGE_SEP, [k \in 1..Len(ds) |-> strftime(ds[k], p.date_format)])

\* What a text field shows for the value it was given: nothing for None.
Shown(t) == IF t = NoneStr THEN <<>> ELSE t

Str_2024_01_15 == <<"2", "0", "2", "4", "-", "0", "1", "-", "1", "5">>
Str_2024_02_20_slashes == <<"2", "0", "2", "4", "/", "0", "2", "/", "2", "0">>
Str_2024_03_01_to_10 ==
    <<"2", "0", "2", "4", "-", "0", "3", "-", "0", "1", " ", "-", " ",
      "2", "0", "2", "4", "-", "0", "3", "-", "1", "0">>

\* C1: an edit with a string that does not parse under the binder's
\* reception pattern raises (ValueError, the format error) and leaves the
\* date reference, the list reference, the cached date_str and every
\* displayed string as they were before the attempt.
C1_FailedEditKeepsState ==
    [][(/\ event'.name \in EditNames
        /\ \E k \in 1..Len(event'.arg) :
              ~strptime(event'.arg[k], ReceptionPattern(props[event'.inst])).ok)
       => (/\ raised' = "ValueError"
           /\ value' = value /\ dates' = dates
           /\ date_str' = date_str /\ text' = text)]_vars

\* C1 witness: "not-a-date" typed into an InputDate showing 2024-01-15; the
\* error is raised, the reference and the display are still 2024-01-15.
C1_Witness ==
    /\ event = Event("text_edit", "a", <<Str_not_a_date>>)
    /\ raised = "ValueError"
    /\ value = Date(2024, 1, 15)
    /\ text["a"] = Str_2024_01_15

\* C2: in every reachable state every mounted binder displays its
\* reference formatted with its display pattern.
C2_DisplayMatchesReference ==
    \A i \in Mounted : Shown(text[i]) = format(props[i], value, dates)

\* C3: a text edit that parses replaces the date reference by the parsed
\* date, and the text field then shows that date in the caller's
\* date_format, not the raw text and not the reception pattern.
C3_TextEditWritesAndFormats ==
    [][(/\ event'.name = "text_edit"
        /\ strptime(event'.arg[1], ReceptionPattern(props[event'.inst])).ok)
       => (/\ raised' = "none"
           /\ value' = strptime(event'.arg[1],
                                ReceptionPattern(props[event'.inst])).date
           /\ text'[event'.inst] =
                 strftime(value', props[event'.inst].date_format))]_vars

\* C3 witness: "2024-2-20" typed into an InputDate with date_format
\* "%Y/%m/%d"; the reference is 2024-02-20 and the field shows 2024/02/20.
C3_Witness ==
    /\ event = Event("text_edit", "a", <<Str_unpadded>>)
    /\ props["a"].date_format = SLASH_FORMAT
    /\ value = Date(2024, 2, 20)
    /\ text["a"] = Str_2024_02_20_slashes

\* C4: after a successful edit in a single-date binder, the reference
\* formatted with the display pattern parses back, through the binder's
\* reception pattern, to the date written.
C4_DisplayRoundTrip ==
    (/\ event.name \in {"text_edit", "calendar_pick"}
     /\ raised = "none")
    => strptime(strftime(value, props[event.inst].date_format),
                ReceptionPattern(props[event.inst]))
         = [ok |-> TRUE, date |-> value]

\* The `open` a component is mounted with.
OpenAtMount(p) == IF p.open_is_ref THEN open_ref ELSE p.open

\* C5: the overlay is Closed or Open, starts as `open` says at mount,
\* is Open after the text field is activated, Closed after the close
\* action (taken while Open), and no edit, re-render or write of a date
\* reference changes it.
C5_OverlayStateMachine ==
    [][\A i \in Inst :
         /\ event' = Event("mount", i, <<>>) => menu_open'[i] = OpenAtMount(props[i])
         /\ event' = Event("activate", i, <<>>) => menu_open'[i]
         /\ event' = Event("close", i, <<>>) => menu_open[i] /\ ~menu_open'[i]
         /\ event'.name \notin {"mount", "unmount", "activate", "close", "toggle_open"}
               => menu_open'[i] = menu_open[i]]_vars

\* C5 witness: the close action has just taken a mounted binder to Closed.
C5_Witness ==
    /\ event = Event("close", "a", <<>>)
    /\ mounted["a"] /\ ~menu_open["a"]

\* C6: no date edit, from the calendar or the text field, single or range,
\* accepted or rejected, changes the open flag.
C6_EditKeepsOverlay ==
    [][event'.name \in EditNames
       => (menu_open' = menu_open /\ open_ref' = open_ref /\ own_open' = own_open)]_vars

\* C6 witness: a date was picked in the calendar and the overlay is still
\* open.
C6_Witness ==
    /\ event.name = "calendar_pick" /\ raised = "none"
    /\ value = Date(2024, 2, 20)
    /\ menu_open["a"]

\* C7: the date references change only in a step that is an accepted edit
\* (or a write by the caller): opening, closing, toggling the open
\* reference, mounting, re-rendering and unmounting leave them alone.
C7_OnlyEditsWriteReference ==
    [][(value' # value \/ dates' # dates)
       => \/ event'.name \in EditNames /\ raised' = "none"
          \/ event'.name \in {"write_value", "write_dates"}]_vars

\* C7 witness: the overlay was closed and the date written earlier is kept.
C7_Witness ==
    /\ event = Event("close", "a", <<>>)
    /\ ~menu_open["a"]
    /\ value = Date(2024, 2, 20)

\* C8: with a reference as `open`, the overlay of a mounted binder is in
\* the state the reference holds, and the binder's activation and close
\* are written to the reference.
C8_OpenReferencePassThrough ==
    /\ [](\A i \in Mounted : props[i].open_is_ref => menu_open[i] = open_ref)
    /\ [][\A i \in Inst :
            props[i].open_is_ref
            => /\ event' = Event("activate", i, <<>>) => open_ref'
               /\ event' = Event("close", i, <<>>) => ~open_ref']_vars

\* C8 witness: the caller toggled the reference and the overlay is open.
C8_Witness ==
    /\ event.name = "toggle_open"
    /\ mounted["a"] /\ props["a"].open_is_ref
    /\ open_ref /\ menu_open["a"]

\* C9: with a plain bool as `open`, a re-render leaves the binder's flag as
\* it is whatever value is passed, activation and close do not touch the
\* caller's argument or the caller's reference, and the argument changes
\* only when the caller passes another one.
C9_PlainOpenSeededOnce ==
    [][\A i \in Inst :
         (Present(i) /\ ~props[i].open_is_ref)
         => /\ event' = Event("rerender", i, <<>>)
                 => (own_open'[i] = own_open[i] /\ menu_open'[i] = menu_open[i])
            /\ event'.name \in {"activate", "close"}
                 => (props' = props /\ open_ref' = open_ref)
            /\ props'[i] # props[i] => event' = Event("rerender", i, <<>>)]_vars

\* C9 witness: the binder is open and was just re-rendered with open=False.
C9_Witness ==
    /\ event = Event("rerender", "a", <<>>)
    /\ ~props["a"].open_is_ref /\ ~props["a"].open
    /\ menu_open["a"]

\* The dates a reported sequence of strings stands for.
Carried(ss) ==
    IF ss \in PickedRanges
    THEN CHOOSE ds \in RangeSeqs : \E f \in Formats : date_strings(ds, f) = ss
    ELSE <<>>

\* C10: a calendar edit of a range binder carrying 0, 1 or 2 dates (written
\* in the pattern the binder receives edits in) replaces the list reference
\* by exactly those dates in the order received, and the text field shows
\* them formatted with date_format and joined by " - ".
C10_RangeEditReplacesInOrder ==
    [][(/\ event'.name = "calendar_range"
        /\ Len(event'.arg) <= 2
        /\ event'.arg = date_strings(Carried(event'.arg),
                                     ReceptionPattern(props[event'.inst])))
       => (/\ dates' = Carried(event'.arg)
           /\ text'[event'.inst] =
                 join(RANGE_SEP,
                      [k \in 1..Len(dates') |->
                          strftime(dates'[k], props[event'.inst].date_format)]))]_vars

\* C10 witness: 2024-03-01 then 2024-03-10 were picked; the list holds both
\* in that order and the field shows "2024-03-01 - 2024-03-10".
C10_Witness ==
    /\ event.name = "calendar_range" /\ raised = "none"
    /\ Len(event.arg) = 2
    /\ dates = <<Date(2024, 3, 1), Date(2024, 3, 10)>>
    /\ text["a"] = Str_2024_03_01_to_10


\* C11: a range edit whose sequence has more than two elements is rejected
\* with a RangeArityError, and the list reference never holds more than two
\* dates.
C11_RangeArityChecked ==
    /\ Len(dates) <= 2
    /\ (event.name = "calendar_range" /\ Len(event.arg) > 2)
          => raised = "RangeArityError"

\* C12: what is shown under the calendar depends on `children` only: with
\* none, exactly the default close button, and then whenever the overlay is
\* open the close action can be taken and closes it; with children, exactly
\* those in the given order, and no close action of the binder's own.
C12_ChildrenReplaceCloseButton ==
    \A i \in Mounted :
       /\ props[i].children = 0
             => /\ ControlsUnderCalendar(props[i]) = <<"close">>
                /\ menu_open[i] => ENABLED (CloseClick(i) /\ ~menu_open'[i])
       /\ props[i].children > 0
             => /\ ControlsUnderCalendar(props[i])
                      = [k \in 1..props[i].children |-> ChildElements[k]]
                /\ ~ENABLED CloseClick(i)

\* C12 witness: a binder without children is open, so its close button is
\* there to be clicked.
C12_Witness ==
    /\ event = Event("activate", "a", <<>>)
    /\ mounted["a"] /\ menu_open["a"]
    /\ props["a"].children = 0

\* C13: whenever the date reference holds None, every mounted single-date
\* binder shows an empty text field.
C13_NoneShowsEmpty ==
    \A i \in Mounted :
       (props[i].kind \in SingleKinds /\ value = None) => Shown(text[i]) = <<>>

Str_2024_03_10 == <<"2", "0", "2", "4", "-", "0", "3", "-", "1", "0">>

\* C14: a range edit in which some element does not parse, at whichever
\* position and whatever the other elements are, leaves the whole list
\* reference as it was.
C14_RangeEditAllOrNothing ==
    [][(/\ event'.name = "calendar_range"
        /\ \E k \in 1..Len(event'.arg) :
              ~strptime(event'.arg[k], ReceptionPattern(props[event'.inst])).ok)
       => dates' = dates]_vars

\* C14 witness: the second of two items was "not-a-date" while the first
\* was a good date other than the ones held; the list is still the old one.
C14_Witness ==
    /\ event = Event("calendar_range", "a", <<Str_2024_03_10, Str_not_a_date>>)
    /\ props["a"].kind = "InputDateRange"
    /\ raised = "ValueError"
    /\ dates = <<Date(2024, 3, 1)>>

\* Every item of a report is some date of the model written in pattern f.
AllWrittenIn(ss, f) ==
    \A k \in 1..Len(ss) : \E d \in SingleDates \cup RangeDates : ss[k] = strftime(d, f)

\* The dates of a report written in pattern f.
DatesWrittenIn(ss, f) ==
    [k \in 1..Len(ss) |->
        CHOOSE d \in SingleDates \cup RangeDates : ss[k] = strftime(d, f)]

\* C15: InputDate and InputDateRange accept a calendar report in canonical
\* YYYY-MM-DD form and write its dates, whatever date_format is; DatePicker
\* and DateRangePicker accept a calendar report exactly when it is written
\* in date_format; and a single edit, typed or picked, is accepted exactly
\* when it parses under the binder's one reception pattern.
C15_WireConventions ==
    [][LET p == props[event'.inst]
           a == event'.arg
       IN /\ (event'.name \in {"calendar_pick", "calendar_range"} /\ p.kind \in InputKinds
                 /\ AllWrittenIn(a, ISO_FORMAT))
             => /\ raised' = "none"
                /\ IF p.kind = "InputDate"
                   THEN <<value'>> = DatesWrittenIn(a, ISO_FORMAT)
                   ELSE dates' = DatesWrittenIn(a, ISO_FORMAT)
          /\ (event'.name \in {"calendar_pick", "calendar_range"} /\ p.kind \notin InputKinds)
             => (raised' = "none" <=> AllWrittenIn(a, p.date_format))
          /\ event'.name \in {"text_edit", "calendar_pick"}
             => (raised' = "none" <=> strptime(a[1], ReceptionPattern(p)).ok)]_vars

\* C15 witness: a DatePicker with date_format "%d.%m.%Y" was sent the
\* canonical "2024-01-15" by its calendar and rejected it.
C15_Witness ==
    /\ event = Event("calendar_pick", "a", <<Str_2024_01_15>>)
    /\ props["a"].kind = "DatePicker" /\ props["a"].date_format = DOT_FORMAT
    /\ raised = "ValueError"

\* C16: the text field of a range binder takes no input, and the text
\* field of a single-date binder, DatePicker or InputDate, takes input that
\* changes the date reference.
C16_TextFieldEditability ==
    \A i \in Mounted :
       /\ props[i].kind \in RangeKinds
             => ~ENABLED (\E s \in TypedStrings : TextEdit(i, s))
       /\ props[i].kind \in SingleKinds
             => ENABLED (\E s \in TypedStrings : TextEdit(i, s) /\ value' # value)

(*************************************************************************)
(* Two single-date binders on one page, bound to the same date reference  *)
(*************************************************************************)

\* The argument lists of the two binders: either component, plain open,
\* default close button, each with its own display pattern.
SharedProps == [kind : SingleKinds, date_format : {ISO_FORMAT, SLASH_FORMAT},
                open : {FALSE}, open_is_ref : {FALSE}, children : {0}]

InitShared ==
    /\ props \in [Inst -> SharedProps]
    /\ value \in SingleDates \cup {None}
    /\ dates = <<>>
    /\ open_ref = FALSE
    /\ mounted = [i \in Inst |-> FALSE]
    /\ own_open = [i \in Inst |-> FALSE]
    /\ date_str = [i \in Inst |-> NoneStr]
    /\ text = [i \in Inst |-> NoneStr]
    /\ menu_open = [i \in Inst |-> FALSE]
    /\ event = Event("init", "a", <<>>)
    /\ raised = "none"

\* The user works with either binder; the caller writes nothing itself.
NextShared ==
    \/ \E i \in Inst : Mount(i)
    \/ \E i \in Inst : Activate(i)
    \/ \E i \in Inst, s \in TypedStrings : TextEdit(i, s)
    \/ \E i \in Inst, s \in PickedStrings : CalendarPick(i, s)

SpecShared == InitShared /\ [][NextShared]_vars

\* C17: with two binders on one date reference, an accepted edit in either
\* makes the reference the date it carries, a rejected edit leaves the
\* reference as the other binder wrote it, and after every edit each
\* mounted binder shows the reference in its own display pattern.
C17_SharedReferenceLastWriterWins ==
    [][event'.name \in {"text_edit", "calendar_pick"}
       => LET parsed == strptime(event'.arg[1], ReceptionPattern(props[event'.inst]))
          IN /\ parsed.ok => value' = parsed.date
             /\ ~parsed.ok => value' = value
             /\ \A j \in Inst :
                   mounted'[j] => Shown(text'[j]) = format(props[j], value', dates')]_vars

(*************************************************************************)
(* InputDate.set_date_cast statement by statement                         *)
(*************************************************************************)

\* Positions inside a running set_date_cast, kept in event.name: after the
\* strptime of line 73, and after the next statement.
AT_PARSED == "set_date_cast:parsed"
AT_SECOND == "set_date_cast:second"

\* No handler is running: the event loop is free to take the next event.
Idle == event.name \notin {AT_PARSED, AT_SECOND}

\* Variant: date_str is refreshed first and the reference written after.
set_date_cast_statement_swapped(pos) ==
    IF pos = AT_PARSED THEN "date_str.set" ELSE "value.value ="

\* The statement set_date_cast runs at each position: line 74 writes the
\* reference, line 75 refreshes date_str.
set_date_cast_statement(pos) ==
    IF pos = AT_PARSED THEN "value.value =" ELSE "date_str.set"

\* The user types s into InputDate's text field: set_date_cast starts and
\* runs its strptime; a ValueError ends the handler at once.
BeginEdit(i, s) ==
    /\ Idle
    /\ mounted[i] /\ props[i].kind = "InputDate" /\ ~readonly(props[i])
    /\ LET parsed == strptime(s, ISO_FORMAT)
       IN IF parsed.ok
          THEN event' = Event(AT_PARSED, i, <<s>>) /\ raised' = "none"
          ELSE event' = Event("text_edit", i, <<s>>) /\ raised' = "ValueError"
    /\ UNCHANGED <<props, value, dates, open_ref, mounted, own_open, date_str>>
    /\ Render

\* The running handler executes its next statement and, after the last
\* one, returns.
HandlerStep(i) ==
    /\ ~Idle /\ event.inst = i
    /\ IF set_date_cast_statement(event.name) = "value.value ="
       THEN /\ value' = strptime(event.arg[1], ISO_FORMAT).date
            /\ date_str' = date_str
       ELSE /\ date_str' = [date_str EXCEPT
                              ![i] = str_and_format(value, props[i].date_format)]
            /\ value' = value
    /\ event' = Event(IF event.name = AT_PARSED THEN AT_SECOND ELSE "text_edit",
                      i, event.arg)
    /\ raised' = "none"
    /\ UNCHANGED <<props, dates, open_ref, mounted, own_open>>
    /\ Render

\* One InputDate on the page, `open` a plain False, default close button.
InitSteps ==
    /\ props \in {f \in [Inst -> Props \cup {Absent}] :
                    /\ f["b"] = Absent
                    /\ f["a"] \in Props /\ f["a"].kind = "InputDate"
                    /\ ~f["a"].open /\ ~f["a"].open_is_ref /\ f["a"].children = 0}
    /\ value \in SingleDates \cup {None}
    /\ dates = <<>>
    /\ open_ref = FALSE
    /\ mounted = [i \in Inst |-> FALSE]
    /\ own_open = [i \in Inst |-> FALSE]
    /\ date_str = [i \in Inst |-> NoneStr]
    /\ text = [i \in Inst |-> NoneStr]
    /\ menu_open = [i \in Inst |-> FALSE]
    /\ event = Event("init", "a", <<>>)
    /\ raised = "none"

\* Events are handled one at a time on the one UI thread: a new one is
\* taken only when no handler is running.
NextSteps ==
    \/ \E i \in Inst : Idle /\ Mount(i)
    \/ \E i \in Inst : Idle /\ Unmount(i)
    \/ \E i \in Inst : Idle /\ Activate(i)
    \/ \E i \in Inst : Idle /\ CloseClick(i)
    \/ \E i \in Inst, s \in TypedStrings : BeginEdit(i, s)
    \/ \E i \in Inst : HandlerStep(i)

SpecSteps == InitSteps /\ [][NextSteps]_vars

\* C18: in an edit the reference is written only right after the parse,
\* and with the parsed date; the display is refreshed only right after the
\* write, from the written date; a running edit is followed by nothing but
\* its own next statement; and whenever an interaction can start, the
\* binder shows the date the reference holds.
C18_ParseWriteDisplayInOrder ==
    /\ [](Idle => \A i \in Mounted :
                     date_str[i] = str_and_format(value, props[i].date_format)
                     /\ text[i] = date_str[i])
    /\ [][/\ value' # value
             => /\ event.name = AT_PARSED
                /\ value' = strptime(event.arg[1], ISO_FORMAT).date
          /\ \A i \in Inst :
                (mounted[i] /\ mounted'[i] /\ date_str'[i] # date_str[i])
                => /\ event.name = AT_SECOND /\ event.inst = i
                   /\ date_str'[i] = str_and_format(value, props[i].date_format)
                   /\ value = strptime(event.arg[1], ISO_FORMAT).date
          /\ ~Idle
             => /\ event'.inst = event.inst /\ event'.arg = event.arg
                /\ event'.name = (IF event.name = AT_PARSED
                                  THEN AT_SECOND ELSE "text_edit")]_vars

\* C18 witness: inside an edit, 2024-02-20 is already written and the
\* display still shows 2024-01-15; the display statement is next.
C18_Witness ==
    /\ event = Event(AT_SECOND, "a", <<Str_unpadded>>)
    /\ value = Date(2024, 2, 20)
    /\ props["a"].date_format = ISO_FORMAT
    /\ text["a"] = Str_2024_01_15
=============================================================================
